---- MODULE Spec2Model ----
(***************************************************************************)
(* A model of realsense2Driver (src/devices/realsense2/realsense2Driver.cpp)*)
(* as the state machine its host drives: one public operation is one step.  *)
(* The vendor SDK is the environment: every SDK call either returns or      *)
(* raises rs2::error, and the model keeps the SDK state the driver depends  *)
(* on (the pipeline's started flag and active profile, the sensors' option  *)
(* values).                                                                 *)
(***************************************************************************)
EXTENDS Integers, Sequences, FiniteSets, TLC

VARIABLES
    devicePresent,    \* a RealSense device is plugged in (environment)
    pc,               \* "idle", or "wait_device": open() is blocked in wait_for_device
    pending,          \* the configuration of the open() that is blocked, else NoConfig
    running,          \* m_pipeline has an active profile (started, not stopped)
    profile,          \* the active profile's stream resolutions, NoProfile when stopped
    m_cfg,            \* rs2::config: the resolution requested per stream
    m_depth_intrin,   \* <<width, height>> of rs2_intrinsics m_depth_intrin
    m_color_intrin,   \* <<width, height>> of rs2_intrinsics m_color_intrin
    m_depth_sensor,   \* m_depth_sensor # nullptr
    m_color_sensor,   \* m_color_sensor # nullptr
    options,          \* the sensors' option values (SDK state)
    m_rgb_stamp,      \* number of updates of m_rgb_stamp
    m_depth_stamp,    \* number of updates of m_depth_stamp
    rgbImage,         \* the caller's FlexImage handed to the color capture
    depthImage,       \* the caller's ImageOf<PixelFloat> handed to the depth capture
    op,               \* the last public operation called, with its arguments, or "unplug"
    ret,              \* how it ended: "true", "false", "threw" (rs2::error escaped), "blocked"
    calls,            \* the SDK calls it made, in order
    out,              \* what it wrote to its output arguments
    opened            \* an open() has returned true and no close() was called since

vars == <<devicePresent, pc, pending, running, profile, m_cfg, m_depth_intrin,
          m_color_intrin, m_depth_sensor, m_color_sensor, options, m_rgb_stamp,
          m_depth_stamp, rgbImage, depthImage, op, ret, calls, out, opened>>

(***************************************************************************)
(* Bounds of the model.                                                     *)
(***************************************************************************)
\* widths and heights are 0..MaxDim; 0 is the SDK's "any" in a stream request
MaxDim == 2
\* option values written by the host are 0..MaxOptVal
MaxOptVal == 1
\* captures counted per stream stamp
MaxStamp == 2
\* parameters a configuration has in its SETTINGS group
MaxSettings == 1

(***************************************************************************)
(* Stream requests, profiles and the pipeline (SDK).                        *)
(***************************************************************************)
Dim == 0..MaxDim
Res == Dim \X Dim
\* the resolutions the device offers for a stream: real sizes, never 0
SupportedRes == {r \in (1..MaxDim) \X (1..MaxDim) : r[1] = r[2]}
NoStream == <<"none">>
NoProfile == [color |-> NoStream, depth |-> NoStream]
\* what the members hold before updateTransformations first assigns them
UninitRes == {<<0, 0>>, <<1, 2>>}

\* a stream request matches a profile of the device; a 0 field matches any value
Match(req, r) ==
    \/ req = NoStream
    \/ /\ req # NoStream
       /\ req[1] = 0 \/ req[1] = r[1]
       /\ req[2] = 0 \/ req[2] = r[2]

Resolve(cfg) ==
    {p \in [color : SupportedRes, depth : SupportedRes] :
        Match(cfg.color, p.color) /\ Match(cfg.depth, p.depth)}

\* the driver state an operation works on, with the SDK calls made so far
Cur ==
    [dev |-> devicePresent, running |-> running, profile |-> profile, cfg |-> m_cfg,
     di |-> m_depth_intrin, ci |-> m_color_intrin, ds |-> m_depth_sensor,
     cs |-> m_color_sensor, opt |-> options, val |-> 0, calls |-> <<>>,
     ret |-> "true"]

Log(s, c) == [s EXCEPT !.calls = Append(@, c)]

\* m_cfg.enable_stream(stream, w, h, format, 0)
enable_stream(s, stream, r) ==
    IF stream = "color" THEN [s EXCEPT !.cfg.color = r] ELSE [s EXCEPT !.cfg.depth = r]

\* m_pipeline.stop(): raises when the pipeline is not started; may raise otherwise
pipeline_stop(s) ==
    LET ok == Log(s, <<"stop", "ok">>)
        error == Log(s, <<"stop", "error">>)
    IN  {[error EXCEPT !.ret = "error"]} \cup
        IF ~s.running
        THEN {}
        ELSE {[ok EXCEPT !.ret = "ok", !.running = FALSE, !.profile = NoProfile]}

\* m_pipeline.start(m_cfg): raises when started already, when no device is there or
\* when no profile of the device matches the requests; may raise otherwise
pipeline_start(s) ==
    LET ok == Log(s, <<"start", "ok", s.cfg>>)
        error == Log(s, <<"start", "error", s.cfg>>)
    IN  {[error EXCEPT !.ret = "error"]} \cup
        IF s.running \/ ~s.dev
        THEN {}
        ELSE {[ok EXCEPT !.ret = "ok", !.running = TRUE, !.profile = p] :
                p \in Resolve(s.cfg)}

pipelineStartup(s) ==
    {[t EXCEPT !.ret = IF t.ret = "ok" THEN "true" ELSE "false"] : t \in pipeline_start(s)}

pipelineShutdown(s) ==
    {[t EXCEPT !.ret = IF t.ret = "ok" THEN "true" ELSE "false"] : t \in pipeline_stop(s)}

\* get_active_profile is not inside a try block: it raises when the pipeline is
\* stopped and may raise otherwise; else both intrinsics are those of the profile
updateTransformations(s) ==
    LET ok == Log(s, <<"get_active_profile", "ok">>)
        error == Log(s, <<"get_active_profile", "error">>)
    IN  {[error EXCEPT !.ret = "threw"]} \cup
        IF ~s.running
        THEN {}
        ELSE {[ok EXCEPT !.ret = "true", !.di = s.profile.depth, !.ci = s.profile.color]}

\* run step on every state of S that has not failed yet
Then(S, step(_)) ==
    UNION {IF s.ret = "true" THEN step(s) ELSE {s} : s \in S}

\* setDepthResolution that declares the depth stream alone
setDepthResolution_depthOnly(s, w, h) ==
    LET s1 == enable_stream([s EXCEPT !.cfg.color = NoStream], "depth", <<w, h>>) IN
    Then(Then(pipelineShutdown(s1), pipelineStartup), updateTransformations)

setDepthResolution(s, w, h) ==
    LET s1 == enable_stream(enable_stream(s, "color", s.ci), "depth", <<w, h>>) IN
    Then(Then(pipelineShutdown(s1), pipelineStartup), updateTransformations)

setRgbResolution(s, w, h) ==
    LET s1 == enable_stream(enable_stream(s, "color", <<w, h>>), "depth", s.di) IN
    Then(Then(pipelineShutdown(s1), pipelineStartup), updateTransformations)

(***************************************************************************)
(* Sensor options (SDK) and the driver's setOption / getOption.             *)
(***************************************************************************)
DepthOptions == {"ACCURACY", "MIN_DISTANCE", "MAX_DISTANCE"}
ColorOptions == {"EXPOSURE", "GAIN", "WHITE_BALANCE", "SHARPNESS", "HUE", "SATURATION",
                 "ENABLE_AUTO_WHITE_BALANCE", "ENABLE_AUTO_EXPOSURE"}
OptVal == 0..MaxOptVal

HasSensor(s, sensor) == IF sensor = "depth" THEN s.ds ELSE s.cs

\* a null sensor fails; so does an option the sensor does not support; set_option
\* may raise (caught), else the sensor holds the value
setOption(s, option, sensor, value) ==
    IF ~HasSensor(s, sensor)
    THEN {[s EXCEPT !.ret = "false"]}
    ELSE LET ok == Log(s, <<"set_option", "ok", option, value>>)
             error == Log(s, <<"set_option", "error", option, value>>)
         IN  {[s EXCEPT !.ret = "false"],
              [error EXCEPT !.ret = "false"],
              [ok EXCEPT !.ret = "true", !.opt[option] = value]}

\* as setOption; on success val is the value read
getOption(s, option, sensor) ==
    IF ~HasSensor(s, sensor)
    THEN {[s EXCEPT !.ret = "false"]}
    ELSE LET ok == Log(s, <<"get_option", "ok", option>>)
             error == Log(s, <<"get_option", "error", option>>)
         IN  {[s EXCEPT !.ret = "false"],
              [error EXCEPT !.ret = "false"],
              [ok EXCEPT !.ret = "true", !.val = s.opt[option]]}

\* ret = first; ret &= second: the second call is made whatever the first returned
BothOf(S, second(_)) ==
    UNION {IF a.ret = "threw"
           THEN {a}
           ELSE {[b EXCEPT !.ret = IF b.ret = "true" THEN a.ret ELSE b.ret] :
                    b \in second([a EXCEPT !.ret = "true"])} : a \in S}

setDepthAccuracy(s, v) == setOption(s, "ACCURACY", "depth", v)

setDepthClipPlanes(s, near, far) ==
    LET max(a) == setOption(a, "MAX_DISTANCE", "depth", far) IN
    BothOf(setOption(s, "MIN_DISTANCE", "depth", near), max)

(***************************************************************************)
(* open(): parameter parsing (external), device initialisation, setParams.  *)
(***************************************************************************)
\* a parameter is in the HW_DESCRIPTION group ("desc": isSetting is false), or a
\* setting whose value has the type setParams asks for ("ok") or not ("bad")
Status == {"desc", "ok", "bad"}
\* Value::asDouble() / asInt() of a parameter: the number it holds, 0 when it
\* holds none
AsNumber(st) == IF st = "bad" THEN 0 ELSE 1
ResParam == {[st |-> st, val |-> <<AsNumber(st), AsNumber(st)>>] : st \in Status}
NoConfig == [parseOk |-> FALSE]
\* the configurations open() is given: one the parser rejects, and every one
\* with at most MaxSettings parameters in the SETTINGS group
Config ==
    {NoConfig} \cup
    {c \in [parseOk : {TRUE}, acc : Status, clip : Status,
            depthRes : ResParam, rgbRes : ResParam] :
        Cardinality({x \in {<<1, c.acc>>, <<2, c.clip>>, <<3, c.depthRes.st>>,
                              <<4, c.rgbRes.st>>} : x[2] # "desc"}) <= MaxSettings}
\* the 30 warm-up frames of initializeRealsenseDevice
WarmupFrames == 30

\* a step of setParams: settingErrorMsg clears ret when the type is wrong, and the
\* setter is called all the same
Setting(st, applied) ==
    {[t EXCEPT !.ret = IF t.ret = "true" /\ st = "bad" THEN "false" ELSE t.ret] :
        t \in applied}

setParams(s, in) ==
    LET accuracy(a) ==
            IF in.acc = "desc" THEN {a}
            ELSE Setting(in.acc, setDepthAccuracy(a, AsNumber(in.acc)))
        clipPlanes(a) ==
            IF in.clip = "desc" THEN {a}
            ELSE Setting(in.clip,
                         setDepthClipPlanes(a, AsNumber(in.clip), AsNumber(in.clip)))
        depthRes(a) ==
            IF in.depthRes.st = "desc" THEN {a}
            ELSE Setting(in.depthRes.st,
                         setDepthResolution(a, in.depthRes.val[1], in.depthRes.val[2]))
        rgbRes(a) ==
            IF in.rgbRes.st = "desc" THEN {a}
            ELSE Setting(in.rgbRes.st,
                         setRgbResolution(a, in.rgbRes.val[1], in.rgbRes.val[2]))
    IN  Then(Then(Then(accuracy(s), clipPlanes), depthRes), rgbRes)

\* from m_device.query_sensors() to the end of initializeRealsenseDevice: every
\* sensor of the device is taken as the depth or as the color sensor
discoverSensors(s) ==
    LET ok == Log(s, <<"query_sensors", "ok">>)
        error == Log(s, <<"query_sensors", "error">>)
    IN  {[error EXCEPT !.ret = "threw"]} \cup
        Then({[ok EXCEPT !.ds = @ \/ found[1], !.cs = @ \/ found[2]] :
                found \in {<<TRUE, TRUE>>, <<TRUE, FALSE>>}},
             updateTransformations)

\* m_pipeline.wait_for_frames(), outside any try block: raises when the pipeline is
\* stopped, may raise otherwise
wait_for_frames(s, n) ==
    LET ok == Log(s, <<"wait_for_frames", "ok", n>>)
        error == Log(s, <<"wait_for_frames", "error", n>>)
    IN  {[error EXCEPT !.ret = "threw"]} \cup IF ~s.running THEN {} ELSE {ok}

\* m_ctx.query_devices(), outside any try block; the device may have been unplugged
\* since the pipeline started: with no device enumerated, open blocks in
\* device_hub.wait_for_device()
query_devices(s) ==
    LET ok == Log(s, <<"query_devices", "ok">>)
        error == Log(s, <<"query_devices", "error">>)
    IN  {[error EXCEPT !.ret = "threw"], [ok EXCEPT !.ret = "blocked", !.dev = FALSE]}
        \cup IF s.dev THEN {ok} ELSE {}

initializeRealsenseDevice(s, in) ==
    LET s1 == enable_stream(enable_stream(s, "color", in.rgbRes.val),
                            "depth", in.depthRes.val)
        warmup(a) == wait_for_frames(a, WarmupFrames)
    IN  Then(Then(Then(pipelineStartup(s1), warmup), query_devices), discoverSensors)

open(s, in) ==
    IF ~in.parseOk
    THEN {[s EXCEPT !.ret = "false"]}
    ELSE LET params(a) == setParams(a, in) IN
         Then(initializeRealsenseDevice(s, in), params)

\* device_hub.wait_for_device() has returned: the rest of open()
openResume(s, in) ==
    LET params(a) == setParams(a, in)
        ok == Log(s, <<"wait_for_device", "ok">>)
        error == Log(s, <<"wait_for_device", "error">>)
    IN  {[error EXCEPT !.ret = "threw"]} \cup Then(discoverSensors(ok), params)

\* close that hands back what pipelineShutdown returned
close_shutdownResult(s) == pipelineShutdown(s)

close(s) == {[t EXCEPT !.ret = "true"] : t \in pipelineShutdown(s)}

(***************************************************************************)
(* Resolution getters.                                                      *)
(***************************************************************************)
getDepthWidth == m_depth_intrin[1]
getDepthHeight == m_depth_intrin[2]
getRgbWidth == m_color_intrin[1]
getRgbHeight == m_color_intrin[2]

(***************************************************************************)
(* The camera-feature surface. Feature identifiers are the integers of      *)
(* cameraFeature_id_t; the host may pass any integer.                       *)
(***************************************************************************)
YARP_FEATURE_BRIGHTNESS == 0
YARP_FEATURE_EXPOSURE == 1
YARP_FEATURE_SHARPNESS == 2
YARP_FEATURE_WHITE_BALANCE == 3
YARP_FEATURE_HUE == 4
YARP_FEATURE_SATURATION == 5
YARP_FEATURE_GAIN == 8
YARP_FEATURE_FRAME_RATE == 15
YARP_FEATURE_MIRROR == 22
YARP_FEATURE_NUMBER_OF == 23
\* the identifiers the host passes: every one of the enumeration, and one on each side
FeatureId == (YARP_FEATURE_BRIGHTNESS - 1)..YARP_FEATURE_NUMBER_OF

\* a constructor that lists the brightness as well
m_supportedFeatures_brightness ==
    {YARP_FEATURE_BRIGHTNESS, YARP_FEATURE_EXPOSURE, YARP_FEATURE_WHITE_BALANCE,
     YARP_FEATURE_GAIN, YARP_FEATURE_FRAME_RATE, YARP_FEATURE_SHARPNESS,
     YARP_FEATURE_HUE, YARP_FEATURE_SATURATION}

\* filled by the constructor
m_supportedFeatures ==
    {YARP_FEATURE_EXPOSURE, YARP_FEATURE_WHITE_BALANCE, YARP_FEATURE_GAIN,
     YARP_FEATURE_FRAME_RATE, YARP_FEATURE_SHARPNESS, YARP_FEATURE_HUE,
     YARP_FEATURE_SATURATION}

\* ret: the value returned; written: *hasFeature was assigned; has: its value
hasFeature(feature) ==
    IF feature < YARP_FEATURE_BRIGHTNESS \/ feature > YARP_FEATURE_NUMBER_OF - 1
    THEN [ret |-> FALSE, written |-> FALSE, has |-> FALSE]
    ELSE [ret |-> TRUE, written |-> TRUE, has |-> feature \in m_supportedFeatures]

\* !hasFeature(feature, &b) || !b
Unsupported(feature) == ~hasFeature(feature).ret \/ ~hasFeature(feature).has

\* a switch with a case for the frame rate
FeatureOption_frameRate(feature) ==
    CASE feature = YARP_FEATURE_EXPOSURE -> "EXPOSURE"
      [] feature = YARP_FEATURE_GAIN -> "GAIN"
      [] feature = YARP_FEATURE_FRAME_RATE -> "GAIN"
      [] feature = YARP_FEATURE_WHITE_BALANCE -> "WHITE_BALANCE"
      [] feature = YARP_FEATURE_SHARPNESS -> "SHARPNESS"
      [] feature = YARP_FEATURE_HUE -> "HUE"
      [] feature = YARP_FEATURE_SATURATION -> "SATURATION"
      [] OTHER -> "none"

\* the sensor option the switch of setFeature / getFeature forwards a feature to
FeatureOption(feature) ==
    CASE feature = YARP_FEATURE_EXPOSURE -> "EXPOSURE"
      [] feature = YARP_FEATURE_GAIN -> "GAIN"
      [] feature = YARP_FEATURE_WHITE_BALANCE -> "WHITE_BALANCE"
      [] feature = YARP_FEATURE_SHARPNESS -> "SHARPNESS"
      [] feature = YARP_FEATURE_HUE -> "HUE"
      [] feature = YARP_FEATURE_SATURATION -> "SATURATION"
      [] OTHER -> "none"

setFeature(s, feature, value) ==
    IF Unsupported(feature) \/ FeatureOption(feature) = "none"
    THEN {[s EXCEPT !.ret = "false"]}
    ELSE setOption(s, FeatureOption(feature), "color", value)

\* getOption is handed (float&) value, the pointer itself: *value is never written
getFeature(s, feature) ==
    IF Unsupported(feature) \/ FeatureOption(feature) = "none"
    THEN {[s EXCEPT !.ret = "false"]}
    ELSE getOption(s, FeatureOption(feature), "color")

\* the two-valued overloads
setFeature2(s, feature, value1, value2) == {[s EXCEPT !.ret = "false"]}
getFeature2(s, feature) == {[s EXCEPT !.ret = "false"]}

FeatureMode == {"MODE_UNKNOWN", "MODE_MANUAL", "MODE_AUTO"}

\* the enable-auto option of the two features setMode / getMode know
AutoOption(feature) ==
    CASE feature = YARP_FEATURE_WHITE_BALANCE -> "ENABLE_AUTO_WHITE_BALANCE"
      [] feature = YARP_FEATURE_EXPOSURE -> "ENABLE_AUTO_EXPOSURE"
      [] OTHER -> "none"

setMode(s, feature, mode) ==
    IF Unsupported(feature) \/ AutoOption(feature) = "none" \/ mode = "MODE_UNKNOWN"
    THEN {[s EXCEPT !.ret = "false"]}
    ELSE setOption(s, AutoOption(feature), "color", IF mode = "MODE_AUTO" THEN 1 ELSE 0)

\* the two modes exchanged
ModeOf_exchanged(res) ==
    IF res = 0 THEN "MODE_AUTO" ELSE IF res = 1 THEN "MODE_MANUAL" ELSE "MODE_UNKNOWN"

\* res starts as 0.0 and stays so when nothing is read; *mode is written from res
\* whatever getOption returned
ModeOf(res) ==
    IF res = 0 THEN "MODE_MANUAL" ELSE IF res = 1 THEN "MODE_AUTO" ELSE "MODE_UNKNOWN"

getMode(s, feature) ==
    IF Unsupported(feature)
    THEN {[s EXCEPT !.ret = "false"]}
    ELSE IF AutoOption(feature) = "none"
    THEN {[s EXCEPT !.val = 0]}
    ELSE getOption([s EXCEPT !.val = 0], AutoOption(feature), "color")

\* ret: the value returned; written: *HasOnOff was assigned; has: its value
hasOnOff(feature) ==
    IF Unsupported(feature)
    THEN [ret |-> FALSE, written |-> FALSE, has |-> FALSE]
    ELSE [ret |-> TRUE, written |-> TRUE,
          has |-> feature \in {YARP_FEATURE_WHITE_BALANCE, YARP_FEATURE_MIRROR}]

\* the option the switch of setActive / getActive forwards a feature to
ActiveOption(feature) ==
    CASE feature = YARP_FEATURE_WHITE_BALANCE -> "ENABLE_AUTO_WHITE_BALANCE"
      [] feature = YARP_FEATURE_EXPOSURE -> "ENABLE_AUTO_EXPOSURE"
      [] OTHER -> "none"

setActive(s, feature, onoff) ==
    IF Unsupported(feature) \/ ~hasOnOff(feature).ret \/ ~hasOnOff(feature).has
       \/ ActiveOption(feature) = "none"
    THEN {[s EXCEPT !.ret = "false"]}
    ELSE setOption(s, ActiveOption(feature), "color", IF onoff THEN 1 ELSE 0)

\* getOption is handed (float&) isActive, the pointer itself: *isActive is never
\* written
getActive(s, feature) ==
    IF Unsupported(feature) \/ ~hasOnOff(feature).ret \/ ~hasOnOff(feature).has
       \/ ActiveOption(feature) = "none"
    THEN {[s EXCEPT !.ret = "false"]}
    ELSE getOption(s, ActiveOption(feature), "color")

hasAuto(feature) ==
    IF Unsupported(feature)
    THEN [ret |-> FALSE, written |-> FALSE, has |-> FALSE]
    ELSE [ret |-> TRUE, written |-> TRUE,
          has |-> feature \in {YARP_FEATURE_EXPOSURE, YARP_FEATURE_WHITE_BALANCE}]

hasOnePush(feature) ==
    IF Unsupported(feature)
    THEN [ret |-> FALSE, written |-> FALSE, has |-> FALSE]
    ELSE hasAuto(feature)

\* setMode(feature, MODE_AUTO); setMode(feature, MODE_MANUAL); return true: what
\* the two calls return is dropped
setOnePush(s, feature) ==
    IF Unsupported(feature) \/ ~hasOnePush(feature).ret \/ ~hasOnePush(feature).has
    THEN {[s EXCEPT !.ret = "false"]}
    ELSE {[b EXCEPT !.ret = "true"] :
            b \in UNION {setMode(a, feature, "MODE_MANUAL") :
                            a \in setMode(s, feature, "MODE_AUTO")}}

\* mirroring and field-of-view setters
setRgbMirroring(s, mirror) == {[s EXCEPT !.ret = "false"]}
getRgbMirroring(s) == {[s EXCEPT !.ret = "false"]}
setDepthMirroring(s, mirror) == {[s EXCEPT !.ret = "false"]}
getDepthMirroring(s) == {[s EXCEPT !.ret = "false"]}
setRgbFOV(s, horizontalFov, verticalFov) == {[s EXCEPT !.ret = "false"]}
setDepthFOV(s, horizontalFov, verticalFov) == {[s EXCEPT !.ret = "false"]}

(***************************************************************************)
(* Capture: pixel formats, the caller's images, the per-stream stamps.      *)
(***************************************************************************)
\* a table that takes Y16 for an 8-bit format
pixFormatToCode_y16AsMono(p) ==
    CASE p = "RGB8" -> "VOCAB_PIXEL_RGB"
      [] p = "BGR8" -> "VOCAB_PIXEL_BGR"
      [] p \in {"Z16", "DISPARITY16", "RAW16"} -> "VOCAB_PIXEL_MONO16"
      [] p = "RGBA8" -> "VOCAB_PIXEL_RGBA"
      [] p = "BGRA8" -> "VOCAB_PIXEL_BGRA"
      [] p \in {"Y8", "Y16", "RAW8"} -> "VOCAB_PIXEL_MONO"
      [] OTHER -> "VOCAB_PIXEL_INVALID"

pixFormatToCode(p) ==
    CASE p = "RGB8" -> "VOCAB_PIXEL_RGB"
      [] p = "BGR8" -> "VOCAB_PIXEL_BGR"
      [] p \in {"Z16", "DISPARITY16", "Y16", "RAW16"} -> "VOCAB_PIXEL_MONO16"
      [] p = "RGBA8" -> "VOCAB_PIXEL_RGBA"
      [] p = "BGRA8" -> "VOCAB_PIXEL_BGRA"
      [] p \in {"Y8", "RAW8"} -> "VOCAB_PIXEL_MONO"
      [] OTHER -> "VOCAB_PIXEL_INVALID"

bytesPerPixel(format) ==
    CASE format \in {"RAW8", "Y8"} -> 1
      [] format \in {"Z16", "DISPARITY16", "Y16", "RAW16"} -> 2
      [] format \in {"RGB8", "BGR8"} -> 3
      [] format \in {"RGBA8", "BGRA8"} -> 4
      [] OTHER -> 0

\* the frames the pipeline hands over: a color format, a depth format and one the
\* table does not hold, in the sizes the device offers
FrameFormat == {"RGB8", "Z16", "YUYV"}
Frame == {[format |-> f, w |-> r[1], h |-> r[2]] : f \in FrameFormat, r \in SupportedRes}

\* bytes of a pixel of a FlexImage with this pixel code
PixelSize(code) ==
    CASE code \in {"VOCAB_PIXEL_RGB", "VOCAB_PIXEL_BGR"} -> 3
      [] code \in {"VOCAB_PIXEL_RGBA", "VOCAB_PIXEL_BGRA"} -> 4
      [] code = "VOCAB_PIXEL_MONO16" -> 2
      [] OTHER -> 1

getRawImageSize(img) == img.w * img.h * PixelSize(img.code)

\* Frame.setPixelCode(code); Frame.resize(w, h): a change of layout drops the pixels
Resized(img, code, w, h) ==
    IF img.code = code /\ img.w = w /\ img.h = h
    THEN img
    ELSE [code |-> code, w |-> w, h |-> h, data |-> "blank"]

EmptyRgbImage == [code |-> "VOCAB_PIXEL_MONO", w |-> 0, h |-> 0, data |-> "blank"]
EmptyDepthImage == [w |-> 0, h |-> 0, data |-> "blank"]

\* getImage(FlexImage&, Stamp*, frameset&): img and stamp after the call, the value
\* returned and whether *timeStamp was written
getImageRgb(img, stamp, intrin, frame) ==
    LET pixCode == pixFormatToCode(frame.format)
        mem_to_wrt == frame.w * frame.h * bytesPerPixel(frame.format)
        sized == Resized(img, pixCode, intrin[1], intrin[2])
    IN  IF pixCode = "VOCAB_PIXEL_INVALID"
        THEN [img |-> img, stamp |-> stamp, ret |-> FALSE, stamped |-> FALSE]
        ELSE IF getRawImageSize(sized) # mem_to_wrt
        THEN [img |-> sized, stamp |-> stamp, ret |-> FALSE, stamped |-> FALSE]
        ELSE [img |-> [sized EXCEPT !.data = "frame"], stamp |-> stamp + 1,
              ret |-> TRUE, stamped |-> TRUE]

\* m_depth_stamp.update() moved before the test of the pixel code
getImageDepth_updateFirst(img, stamp, frame) ==
    IF pixFormatToCode(frame.format) = "VOCAB_PIXEL_INVALID"
    THEN [img |-> img, stamp |-> stamp + 1, ret |-> FALSE, stamped |-> FALSE]
    ELSE [img |-> [w |-> frame.w, h |-> frame.h, data |-> "frame"], stamp |-> stamp + 1,
          ret |-> TRUE, stamped |-> TRUE]

\* getImage(depthImage&, Stamp*, const frameset&)
getImageDepth(img, stamp, frame) ==
    IF pixFormatToCode(frame.format) = "VOCAB_PIXEL_INVALID"
    THEN [img |-> img, stamp |-> stamp, ret |-> FALSE, stamped |-> FALSE]
    ELSE [img |-> [w |-> frame.w, h |-> frame.h, data |-> "frame"], stamp |-> stamp + 1,
          ret |-> TRUE, stamped |-> TRUE]

(***************************************************************************)
(* The state machine.                                                       *)
(***************************************************************************)
AllOptions == DepthOptions \cup ColorOptions

Init ==
    /\ devicePresent = TRUE
    /\ pc = "idle"
    /\ pending = NoConfig
    /\ running = FALSE
    /\ profile = NoProfile
    /\ m_cfg = [color |-> NoStream, depth |-> NoStream]
    /\ m_depth_intrin \in UninitRes
    /\ m_color_intrin \in UninitRes
    /\ m_depth_sensor = FALSE
    /\ m_color_sensor = FALSE
    /\ options = [o \in AllOptions |-> 0]
    /\ m_rgb_stamp = 0
    /\ m_depth_stamp = 0
    /\ rgbImage = EmptyRgbImage
    /\ depthImage = EmptyDepthImage
    /\ op = <<"realsense2Driver">>
    /\ ret = "true"
    /\ calls = <<>>
    /\ out = <<>>
    /\ opened = FALSE

\* the driver and SDK state after an operation that ended in s
Driver(s) ==
    /\ devicePresent' = s.dev
    /\ running' = s.running
    /\ profile' = s.profile
    /\ m_cfg' = s.cfg
    /\ m_depth_intrin' = s.di
    /\ m_color_intrin' = s.ci
    /\ m_depth_sensor' = s.ds
    /\ m_color_sensor' = s.cs
    /\ options' = s.opt
    /\ calls' = s.calls

capture == <<m_rgb_stamp, m_depth_stamp, rgbImage, depthImage>>

\* a public operation that is no capture and does not block
Call(name, S) ==
    /\ pc = "idle"
    /\ \E s \in S : Driver(s) /\ ret' = s.ret
    /\ op' = name
    /\ out' = <<>>
    /\ opened' = (opened /\ name[1] # "close")
    /\ UNCHANGED <<pc, pending, capture>>

\* a device is plugged in (its unplugging shows in query_devices)
Plug ==
    /\ ~devicePresent
    /\ devicePresent' = TRUE
    /\ UNCHANGED <<pc, pending, running, profile, m_cfg, m_depth_intrin, m_color_intrin,
                   m_depth_sensor, m_color_sensor, options, capture, op, ret, calls, out,
                   opened>>

Open(in) ==
    /\ pc = "idle"
    /\ \E s \in open(Cur, in) :
        /\ Driver(s)
        /\ ret' = s.ret
        /\ pc' = IF s.ret = "blocked" THEN "wait_device" ELSE "idle"
        /\ pending' = IF s.ret = "blocked" THEN in ELSE NoConfig
        /\ opened' = (opened \/ s.ret = "true")
    /\ op' = <<"open", in>>
    /\ out' = <<>>
    /\ UNCHANGED capture

\* open() goes on once a device is there
WaitForDevice ==
    /\ pc = "wait_device"
    /\ devicePresent
    /\ \E s \in openResume([Cur EXCEPT !.calls = calls], pending) :
        Driver(s) /\ ret' = s.ret /\ opened' = (opened \/ s.ret = "true")
    /\ pc' = "idle"
    /\ pending' = NoConfig
    /\ UNCHANGED <<op, out, capture>>

Close == Call(<<"close">>, close(Cur))

SetDepthResolution(w, h) ==
    Call(<<"setDepthResolution", w, h>>, setDepthResolution(Cur, w, h))

SetRgbResolution(w, h) ==
    Call(<<"setRgbResolution", w, h>>, setRgbResolution(Cur, w, h))

SetRgbMirroring(b) == Call(<<"setRgbMirroring", b>>, setRgbMirroring(Cur, b))
GetRgbMirroring == Call(<<"getRgbMirroring">>, getRgbMirroring(Cur))
SetDepthMirroring(b) == Call(<<"setDepthMirroring", b>>, setDepthMirroring(Cur, b))
GetDepthMirroring == Call(<<"getDepthMirroring">>, getDepthMirroring(Cur))
SetRgbFOV(a, b) == Call(<<"setRgbFOV", a, b>>, setRgbFOV(Cur, a, b))
SetDepthFOV(a, b) == Call(<<"setDepthFOV", a, b>>, setDepthFOV(Cur, a, b))

SetFeature(f, v) == Call(<<"setFeature", f, v>>, setFeature(Cur, f, v))
GetFeature(f) == Call(<<"getFeature", f>>, getFeature(Cur, f))
SetFeature2(f, v1, v2) == Call(<<"setFeature2", f, v1, v2>>, setFeature2(Cur, f, v1, v2))
GetFeature2(f) == Call(<<"getFeature2", f>>, getFeature2(Cur, f))
SetMode(f, m) == Call(<<"setMode", f, m>>, setMode(Cur, f, m))

HasFeature(f) ==
    /\ pc = "idle"
    /\ op' = <<"hasFeature", f>>
    /\ ret' = IF hasFeature(f).ret THEN "true" ELSE "false"
    /\ out' = IF hasFeature(f).written THEN <<hasFeature(f).has>> ELSE <<>>
    /\ calls' = <<>>
    /\ UNCHANGED <<devicePresent, pc, pending, running, profile, m_cfg, m_depth_intrin,
                   m_color_intrin, m_depth_sensor, m_color_sensor, options, capture,
                   opened>>

GetMode(f) ==
    /\ pc = "idle"
    /\ \E s \in getMode(Cur, f) :
        /\ Driver(s)
        /\ ret' = s.ret
        /\ out' = IF s.ret = "threw" \/ Unsupported(f) THEN <<>> ELSE <<ModeOf(s.val)>>
    /\ op' = <<"getMode", f>>
    /\ UNCHANGED <<pc, pending, capture, opened>>

GetRgbImage(frame) ==
    /\ pc = "idle"
    /\ m_rgb_stamp < MaxStamp
    /\ \E s \in wait_for_frames(Cur, 1) :
        LET r == getImageRgb(rgbImage, m_rgb_stamp, m_color_intrin, frame) IN
        /\ Driver(s)
        /\ IF s.ret = "threw"
           THEN ret' = "threw" /\ out' = [rgb |-> "none", depth |-> "none"]
                /\ UNCHANGED <<rgbImage, m_rgb_stamp>>
           ELSE /\ ret' = IF r.ret THEN "true" ELSE "false"
                /\ out' = [rgb |-> IF r.ret THEN "true" ELSE "false", depth |-> "none"]
                /\ rgbImage' = r.img
                /\ m_rgb_stamp' = r.stamp
    /\ op' = <<"getRgbImage", frame>>
    /\ UNCHANGED <<pc, pending, depthImage, m_depth_stamp, opened>>

GetDepthImage(frame) ==
    /\ pc = "idle"
    /\ m_depth_stamp < MaxStamp
    /\ \E s \in wait_for_frames(Cur, 1) :
        LET r == getImageDepth(depthImage, m_depth_stamp, frame) IN
        /\ Driver(s)
        /\ IF s.ret = "threw"
           THEN ret' = "threw" /\ out' = [rgb |-> "none", depth |-> "none"]
                /\ UNCHANGED <<depthImage, m_depth_stamp>>
           ELSE /\ ret' = IF r.ret THEN "true" ELSE "false"
                /\ out' = [rgb |-> "none", depth |-> IF r.ret THEN "true" ELSE "false"]
                /\ depthImage' = r.img
                /\ m_depth_stamp' = r.stamp
    /\ op' = <<"getDepthImage", frame>>
    /\ UNCHANGED <<pc, pending, rgbImage, m_rgb_stamp, opened>>

\* both halves run: the results are combined with &
GetImages(colorFrame, depthFrame) ==
    /\ pc = "idle"
    /\ m_rgb_stamp < MaxStamp
    /\ m_depth_stamp < MaxStamp
    /\ \E s \in wait_for_frames(Cur, 1) :
        LET c == getImageRgb(rgbImage, m_rgb_stamp, m_color_intrin, colorFrame)
            d == getImageDepth(depthImage, m_depth_stamp, depthFrame)
        IN
        /\ Driver(s)
        /\ IF s.ret = "threw"
           THEN ret' = "threw" /\ out' = [rgb |-> "none", depth |-> "none"]
                /\ UNCHANGED <<rgbImage, m_rgb_stamp, depthImage, m_depth_stamp>>
           ELSE /\ ret' = IF c.ret /\ d.ret THEN "true" ELSE "false"
                /\ out' = [rgb |-> IF c.ret THEN "true" ELSE "false",
                           depth |-> IF d.ret THEN "true" ELSE "false"]
                /\ rgbImage' = c.img
                /\ m_rgb_stamp' = c.stamp
                /\ depthImage' = d.img
                /\ m_depth_stamp' = d.stamp
    /\ op' = <<"getImages", colorFrame, depthFrame>>
    /\ UNCHANGED <<pc, pending, opened>>

Lifecycle ==
    \/ \E in \in Config : Open(in)
    \/ WaitForDevice
    \/ Close

Resolution ==
    \/ \E w, h \in Dim : SetDepthResolution(w, h)
    \/ \E w, h \in Dim : SetRgbResolution(w, h)

\* the driver opened with every configuration, and closed
Next == Plug \/ Lifecycle

Spec == Init /\ [][Next]_vars

\* a configuration with every parameter in the HW_DESCRIPTION group
PlainConfig == CHOOSE c \in Config : c.parseOk /\ c.acc = "desc" /\ c.clip = "desc"
                                     /\ c.depthRes.st = "desc" /\ c.rgbRes.st = "desc"

\* the driver opened without settings, then driven through the resolution setters
NextResolution == Plug \/ Open(PlainConfig) \/ WaitForDevice \/ Close \/ Resolution

SpecResolution == Init /\ [][NextResolution]_vars

Capture ==
    \/ \E f \in Frame : GetRgbImage(f)
    \/ \E f \in Frame : GetDepthImage(f)
    \/ \E c, d \in Frame : GetImages(c, d)

\* the driver opened without settings, then asked for images
NextCapture == Open(PlainConfig) \/ Capture

SpecCapture == Init /\ [][NextCapture]_vars

\* the features whose value the host sets and gets: every one the driver does not
\* support, the frame rate, and two of those it forwards to the sensor
ValueFeature ==
    (FeatureId \ m_supportedFeatures) \cup
    {YARP_FEATURE_FRAME_RATE, YARP_FEATURE_EXPOSURE, YARP_FEATURE_GAIN}

Features ==
    \/ \E f \in FeatureId : HasFeature(f)
    \/ \E f \in ValueFeature, v \in OptVal : SetFeature(f, v)
    \/ \E f \in ValueFeature : GetFeature(f)
    \/ \E f \in ValueFeature, v \in OptVal : SetFeature2(f, v, v)
    \/ \E f \in ValueFeature : GetFeature2(f)

Stubs ==
    \/ \E b \in BOOLEAN : SetRgbMirroring(b)
    \/ GetRgbMirroring
    \/ \E b \in BOOLEAN : SetDepthMirroring(b)
    \/ GetDepthMirroring
    \/ \E v \in OptVal : SetRgbFOV(v, v)
    \/ \E v \in OptVal : SetDepthFOV(v, v)

\* the driver opened without settings, then asked for features
NextFeature == Open(PlainConfig) \/ Features \/ Stubs

SpecFeature == Init /\ [][NextFeature]_vars

Modes ==
    \/ \E f \in FeatureId, m \in FeatureMode : SetMode(f, m)
    \/ \E f \in FeatureId : GetMode(f)

NextMode == Open(PlainConfig) \/ Modes

SpecMode == Init /\ [][NextMode]_vars

SetActive(f, b) == Call(<<"setActive", f, b>>, setActive(Cur, f, b))
GetActive(f) == Call(<<"getActive", f>>, getActive(Cur, f))
SetOnePush(f) == Call(<<"setOnePush", f>>, setOnePush(Cur, f))

Toggles ==
    \/ \E f \in FeatureId, b \in BOOLEAN : SetActive(f, b)
    \/ \E f \in FeatureId : GetActive(f)
    \/ \E f \in FeatureId : SetOnePush(f)
    \/ \E f \in FeatureId : GetMode(f)

\* the driver opened without settings, then asked to toggle features
NextToggle == Open(PlainConfig) \/ Toggles

SpecToggle == Init /\ [][NextToggle]_vars

\* the values of rs2_format
rs2_format ==
    {"ANY", "Z16", "DISPARITY16", "XYZ32F", "YUYV", "RGB8", "BGR8", "RGBA8", "BGRA8",
     "Y8", "Y16", "RAW10", "RAW16", "RAW8", "UYVY", "MOTION_RAW", "MOTION_XYZ32F",
     "GPIO_RAW", "6DOF", "DISPARITY32"}

\* a frame of every format, of the size open() asks for
AnyFrame ==
    {[format |-> f, w |-> PlainConfig.rgbRes.val[1], h |-> PlainConfig.rgbRes.val[2]] :
        f \in rs2_format}

\* the driver opened without settings, then handed frames of every format
NextFormat ==
    \/ Open(PlainConfig)
    \/ \E f \in AnyFrame : GetRgbImage(f)
    \/ \E f \in AnyFrame : GetDepthImage(f)

SpecFormat == Init /\ [][NextFormat]_vars

\* the device is unplugged between two operations
Unplug ==
    /\ pc = "idle"
    /\ devicePresent
    /\ devicePresent' = FALSE
    /\ op' = <<"unplug">>
    /\ UNCHANGED <<pc, pending, running, profile, m_cfg, m_depth_intrin, m_color_intrin,
                   m_depth_sensor, m_color_sensor, options, capture, ret, calls, out,
                   opened>>

\* the driver opened and closed while the device comes and goes
NextHotplug == Plug \/ Unplug \/ Open(PlainConfig) \/ WaitForDevice \/ Close

SpecHotplug == Init /\ [][NextHotplug]_vars

(***************************************************************************)
(* Properties.                                                              *)
(***************************************************************************)
\* this step is a call of one of the named public operations
Called(names) == pc = "idle" /\ op'[1] \in names

Made(log, call, outcome) ==
    \E i \in 1..Len(log) : log[i][1] = call /\ log[i][2] = outcome

\* C1: after setDepthResolution(w, h) returns success, getDepthWidth and
\* getDepthHeight return exactly w and h, and getRgbWidth / getRgbHeight return
\* what they returned before the call, for every w and h.
C1_DepthResolutionExact ==
    [][(Called({"setDepthResolution"}) /\ ret' = "true") =>
          /\ getDepthWidth' = op'[2]
          /\ getDepthHeight' = op'[3]
          /\ getRgbWidth' = getRgbWidth
          /\ getRgbHeight' = getRgbHeight]_vars

\* C6: no vendor SDK error escapes a public operation: every operation returns
\* normally, with a boolean.
C6_NoErrorEscapes == ret # "threw"

\* C7: setDepthResolution and setRgbResolution stop the pipeline, start it with a
\* configuration that holds the requested resolution for the target stream and the
\* recorded one for the other, then recompute the intrinsics, in this order; when
\* the stop or the start fails the call returns failure without recomputing, and
\* both recorded resolutions are those from before the call.
C7_StopStartRecompute ==
    [][Called({"setDepthResolution", "setRgbResolution"}) =>
          LET req == <<op'[2], op'[3]>>
              cfg == IF op'[1] = "setDepthResolution"
                     THEN [color |-> m_color_intrin, depth |-> req]
                     ELSE [color |-> req, depth |-> m_depth_intrin]
              n == Len(calls')
              failed == Made(calls', "stop", "error") \/ Made(calls', "start", "error")
          IN  /\ n \in 1..3
              /\ calls'[1][1] = "stop"
              /\ n >= 2 => calls'[2][1] = "start" /\ calls'[2][3] = cfg
                           /\ cfg.color # NoStream /\ cfg.depth # NoStream
              /\ n = 3 => calls'[3][1] = "get_active_profile"
              /\ ~failed => n = 3
              /\ failed => /\ ret' = "false"
                           /\ ~\E i \in 1..n : calls'[i][1] = "get_active_profile"
                           /\ m_depth_intrin' = m_depth_intrin
                           /\ m_color_intrin' = m_color_intrin]_vars

\* a resolution change whose restart failed after the stop succeeded
C7_Witness ==
    /\ op[1] = "setRgbResolution"
    /\ ret = "false"
    /\ Len(calls) = 2
    /\ calls[1] = <<"stop", "ok">>
    /\ calls[2][2] = "error"

\* C8: open returns failure whenever parameter parsing fails, the pipeline start
\* fails, a supplied parameter has the wrong value type or applying one fails, and
\* returns success only when none of these occurs.
C8_OpenFailure ==
    (op[1] = "open" /\ pc = "idle") =>
        LET in == op[2]
            failed ==
                \/ ~in.parseOk
                \/ "bad" \in {in.acc, in.clip, in.depthRes.st, in.rgbRes.st}
                \/ Made(calls, "start", "error")
                \/ Made(calls, "stop", "error")
                \/ Made(calls, "set_option", "error")
        IN  /\ failed => ret = "false"
            /\ ret = "true" => ~failed

\* C9: close returns success in every state, also when the pipeline stop raises,
\* and makes exactly one pipeline stop.
C9_CloseAlwaysSucceeds ==
    op[1] = "close" => ret = "true" /\ Len(calls) = 1 /\ calls[1][1] = "stop"

\* close returned success although the stop raised
C9_Witness == op[1] = "close" /\ ret = "true" /\ calls = <<<<"stop", "error">>>>

\* the supported set as the interface documents it
FixedSupportedSet ==
    {YARP_FEATURE_EXPOSURE, YARP_FEATURE_WHITE_BALANCE, YARP_FEATURE_GAIN,
     YARP_FEATURE_FRAME_RATE, YARP_FEATURE_SHARPNESS, YARP_FEATURE_HUE,
     YARP_FEATURE_SATURATION}

\* C2: hasFeature reports true only for the seven identifiers of the fixed set; for
\* every other identifier, in range or not, setFeature and getFeature return
\* failure and make no set_option / get_option call.
C2_UnsupportedFeatures ==
    /\ (op[1] = "hasFeature" /\ out = <<TRUE>>) => op[2] \in FixedSupportedSet
    /\ (op[1] \in {"setFeature", "getFeature"} /\ op[2] \notin FixedSupportedSet) =>
          /\ ret = "false"
          /\ ~\E i \in 1..Len(calls) : calls[i][1] \in {"set_option", "get_option"}

\* setFeature of an identifier outside the set refused on an opened device whose
\* color sensor was found
C2_Witness ==
    /\ op[1] = "setFeature"
    /\ op[2] = YARP_FEATURE_BRIGHTNESS
    /\ m_color_sensor
    /\ running
    /\ ret = "false"

AutoFeatures == {YARP_FEATURE_WHITE_BALANCE, YARP_FEATURE_EXPOSURE}

\* a setMode(feature, MODE_AUTO) that succeeded, then this step: getMode(feature)
AutoThenGetMode ==
    /\ op[1] = "setMode"
    /\ op[2] \in AutoFeatures
    /\ op[3] = "MODE_AUTO"
    /\ ret = "true"
    /\ Called({"getMode"})
    /\ op'[2] = op[2]

\* setMode of a feature that is neither white balance nor exposure fails, whatever
\* the mode, and changes no option
SetModeOfOthersFails ==
    (Called({"setMode"}) /\ op'[2] \notin AutoFeatures) =>
        /\ ret' = "false"
        /\ options' = options
        /\ ~Made(calls', "set_option", "ok")

\* C3 (as stated): for white balance and exposure a successful setMode(feature,
\* MODE_AUTO) immediately followed by getMode(feature) yields MODE_AUTO; for every
\* other identifier setMode fails for every mode and changes no option.
C3_AutoModeReadBack ==
    [][/\ AutoThenGetMode => out' = <<"MODE_AUTO">>
       /\ SetModeOfOthersFails]_vars

\* C3 (amended): for white balance and exposure a successful setMode(feature,
\* MODE_AUTO) immediately followed by a getMode(feature) that returns success
\* yields MODE_AUTO; for every other identifier setMode fails for every mode and
\* changes no option.
C3_AutoModeReadBackOnSuccess ==
    [][/\ (AutoThenGetMode /\ ret' = "true") => out' = <<"MODE_AUTO">>
       /\ SetModeOfOthersFails]_vars

\* the exposure read back as automatic
C3_Witness ==
    /\ op = <<"getMode", YARP_FEATURE_EXPOSURE>>
    /\ ret = "true"
    /\ out = <<"MODE_AUTO">>
    /\ options["ENABLE_AUTO_EXPOSURE"] = 1

Captures == {"getRgbImage", "getDepthImage", "getImages"}

\* C4: a color capture (getRgbImage or the color half of getImages) of a frame
\* whose width * height * bytes per pixel differs from the raw size of the
\* destination image returns failure and leaves the destination image (pixel code,
\* dimensions, pixels) as it was before the call.
C4_MismatchLeavesImage ==
    [][(/\ Called({"getRgbImage", "getImages"})
        /\ out'.rgb # "none"
        /\ LET frame == op'[2]
               code == pixFormatToCode(frame.format)
           IN  /\ code # "VOCAB_PIXEL_INVALID"
               /\ frame.w * frame.h * bytesPerPixel(frame.format)
                    # m_color_intrin[1] * m_color_intrin[2] * PixelSize(code))
       => (ret' = "false" /\ rgbImage' = rgbImage)]_vars

\* C5: for each stream a successful capture returns a stamp strictly greater than
\* the one the previous successful capture of that stream returned, and no other
\* step (a failed capture among them) advances the stream's stamp.
C5_StampsAdvanceOnSuccess ==
    [][/\ IF Called(Captures) /\ out'.rgb = "true"
          THEN m_rgb_stamp' > m_rgb_stamp
          ELSE m_rgb_stamp' = m_rgb_stamp
       /\ IF Called(Captures) /\ out'.depth = "true"
          THEN m_depth_stamp' > m_depth_stamp
          ELSE m_depth_stamp' = m_depth_stamp]_vars

\* a getImages whose depth half failed after both streams were captured before
C5_Witness ==
    /\ op[1] = "getImages"
    /\ out.rgb = "true"
    /\ out.depth = "false"
    /\ m_rgb_stamp = MaxStamp
    /\ m_depth_stamp = MaxStamp - 1

StubOperations ==
    {"setRgbMirroring", "getRgbMirroring", "setDepthMirroring", "getDepthMirroring",
     "setRgbFOV", "setDepthFOV"}

\* C10: the mirroring accessors, the field-of-view setters, setFeature / getFeature
\* of the frame rate and the two-valued setFeature / getFeature return failure for
\* every argument in every state, call no sensor, and change no driver or sensor
\* state.
C10_UnsupportedOperations ==
    [][(\/ Called(StubOperations)
        \/ Called({"setFeature2", "getFeature2"})
        \/ Called({"setFeature", "getFeature"}) /\ op'[2] = YARP_FEATURE_FRAME_RATE)
       => /\ ret' = "false"
          /\ calls' = <<>>
          /\ UNCHANGED <<devicePresent, pc, pending, running, profile, m_cfg,
                         m_depth_intrin, m_color_intrin, m_depth_sensor,
                         m_color_sensor, options, capture>>]_vars

\* the frame rate refused on an opened device whose color sensor was found
C10_Witness ==
    /\ op[1] = "setFeature"
    /\ op[2] = YARP_FEATURE_FRAME_RATE
    /\ m_color_sensor
    /\ running
    /\ ret = "false"

\* C11: an open that runs while no device is connected does not return, with
\* success or with failure, until a device is connected: it waits for the hot-plug,
\* and queries the sensors only after it.
C11_OpenWaitsForDevice ==
    [][/\ (Called({"open"}) /\ ~devicePresent) =>
              /\ pc' = "wait_device"
              /\ ~\E i \in 1..Len(calls') : calls'[i][1] = "query_sensors"
       /\ (pc = "wait_device" /\ pc' = "idle") => devicePresent]_vars

\* C12: for white balance and exposure setActive(feature, b) is the write of b to
\* the feature's enable-auto option of the color sensor, with the outcome of that
\* write as its result, and getActive(feature) is the read of the same option; for
\* every other identifier both return failure and call no sensor.
C12_ActiveIsAutoOption ==
    \A f \in FeatureId :
        IF f \in AutoFeatures
        THEN /\ \A b \in BOOLEAN :
                    setActive(Cur, f, b)
                        = setOption(Cur, AutoOption(f), "color", IF b THEN 1 ELSE 0)
             /\ getActive(Cur, f) = getOption(Cur, AutoOption(f), "color")
        ELSE /\ \A b \in BOOLEAN : setActive(Cur, f, b) = {[Cur EXCEPT !.ret = "false"]}
             /\ getActive(Cur, f) = {[Cur EXCEPT !.ret = "false"]}

\* C14: setOnePush of white balance or exposure writes the enable-auto option to 1
\* and then to 0, so that after a setOnePush that returned success getMode reads
\* MODE_MANUAL; for every other identifier it returns failure and writes nothing.
C14_OnePushEndsManual ==
    [][/\ Called({"setOnePush"}) =>
              IF op'[2] \in AutoFeatures
              THEN ret' = "true" =>
                      /\ calls' = <<<<"set_option", "ok", AutoOption(op'[2]), 1>>,
                                    <<"set_option", "ok", AutoOption(op'[2]), 0>>>>
                      /\ ModeOf(options'[AutoOption(op'[2])]) = "MODE_MANUAL"
              ELSE ret' = "false" /\ calls' = <<>> /\ options' = options
       /\ (op[1] = "setOnePush" /\ ret = "true" /\ Called({"getMode"})
           /\ op'[2] = op[2] /\ ret' = "true") => out' = <<"MODE_MANUAL">>]_vars

\* the formats of the table
TableFormats ==
    {"RGB8", "BGR8", "RGBA8", "BGRA8", "Y8", "RAW8", "Z16", "DISPARITY16", "Y16", "RAW16"}

\* the middleware code documented for a format of the table
DocumentedCode(p) ==
    CASE p = "RGB8" -> "VOCAB_PIXEL_RGB"
      [] p = "BGR8" -> "VOCAB_PIXEL_BGR"
      [] p = "RGBA8" -> "VOCAB_PIXEL_RGBA"
      [] p = "BGRA8" -> "VOCAB_PIXEL_BGRA"
      [] p = "Y8" -> "VOCAB_PIXEL_MONO"
      [] p = "RAW8" -> "VOCAB_PIXEL_MONO"
      [] p = "Z16" -> "VOCAB_PIXEL_MONO16"
      [] p = "DISPARITY16" -> "VOCAB_PIXEL_MONO16"
      [] p = "Y16" -> "VOCAB_PIXEL_MONO16"
      [] p = "RAW16" -> "VOCAB_PIXEL_MONO16"

\* C13: for the formats of the table pixFormatToCode returns the documented code
\* and bytesPerPixel a size from 1 to 4; for every other format pixFormatToCode
\* returns the invalid marker, and a capture that receives a frame of such a format
\* returns failure and leaves the destination image and the stream's stamp as they
\* were.
C13_FormatTable ==
    [][Called({"getRgbImage", "getDepthImage"}) =>
          LET p == op'[2].format IN
          IF p \in TableFormats
          THEN /\ pixFormatToCode(p) = DocumentedCode(p)
               /\ bytesPerPixel(p) \in {1, 2, 3, 4}
          ELSE /\ pixFormatToCode(p) = "VOCAB_PIXEL_INVALID"
               /\ out' # [rgb |-> "none", depth |-> "none"] =>
                     /\ ret' = "false"
                     /\ UNCHANGED <<rgbImage, m_rgb_stamp, depthImage, m_depth_stamp>>]_vars

\* a frame of a format outside the table refused, the image of an earlier capture
\* still in the caller's hands
C13_Witness ==
    /\ op[1] = "getRgbImage"
    /\ op[2].format \notin TableFormats
    /\ out.rgb = "false"
    /\ rgbImage.data = "frame"
    /\ m_rgb_stamp = 1

\* C15: a getImages that returns failure, for the pixel format or the size of the
\* frame of either stream, has written neither the color image nor the depth image
\* nor the stamp of either stream.
C15_NoPartialResult ==
    [][(Called({"getImages"}) /\ ret' = "false") =>
          UNCHANGED <<rgbImage, depthImage, m_rgb_stamp, m_depth_stamp>>]_vars

\* C16: between an open that returned success and the next close the pipeline is
\* started whenever a public operation has returned, with success or with failure.
C16_PipelineRunningWhileOpen == (opened /\ pc = "idle") => running

\* the positions of the SDK calls of a log that satisfy a test
CallsWhere(log, Test(_)) == {i \in 1..Len(log) : Test(log[i])}

\* the pipeline stops (one per resolution setter called) setParams may make when no
\* parameter of a wrong type, and no parameter after one, is applied
AllowedStops(in) ==
    IF "bad" \in {in.acc, in.clip, in.depthRes.st}
    THEN 0
    ELSE (IF in.depthRes.st = "ok" THEN 1 ELSE 0) + (IF in.rgbRes.st = "ok" THEN 1 ELSE 0)

\* C17: setParams never calls the setter of a parameter whose value has the wrong
\* type, and once a parameter has failed (by its type, or in its setter) it applies
\* none of the parameters that follow in the order accuracy, clipPlanes,
\* depthResolution, rgbResolution.
C17_BadParamNotApplied ==
    (op[1] = "open" /\ pc = "idle" /\ op[2].parseOk) =>
        LET in == op[2]
            IsStop(c) == c[1] = "stop"
            Sets(c) == IF c[1] = "set_option" THEN {c[3]} ELSE {}
            Failed(c) == c[1] \in {"set_option", "stop", "start"} /\ c[2] = "error"
        IN  /\ in.acc # "ok" => \A i \in 1..Len(calls) : "ACCURACY" \notin Sets(calls[i])
            /\ (in.clip # "ok" \/ in.acc = "bad") =>
                  \A i \in 1..Len(calls) :
                      Sets(calls[i]) \cap {"MIN_DISTANCE", "MAX_DISTANCE"} = {}
            /\ Cardinality(CallsWhere(calls, IsStop)) <= AllowedStops(in)
            /\ \A i, j \in 1..Len(calls) :
                  (i < j /\ Failed(calls[i])) =>
                      /\ ~IsStop(calls[j])
                      /\ Sets(calls[j]) # {} => Sets(calls[i]) = {"MIN_DISTANCE"}

====
